---- MODULE Spec2Model ----
(***************************************************************************)
(* AuraSense dashboard (src/src/App.js): the App component's state, its    *)
(* two effects (Firebase initialisation + identity listener, Firestore     *)
(* live query) and the callbacks they register, as a state machine.        *)
(*                                                                         *)
(* React semantics assumed: the setState calls of one callback are batched *)
(* into one commit (React 18 createRoot), passive effects run after the    *)
(* commit and always before the next commit of the same root, and a        *)
(* setState on an unmounted component is dropped.                          *)
(***************************************************************************)
EXTENDS Integers, Sequences, FiniteSets, TLC

(* ---------- bounds of the model ---------- *)
MaxSnapLen == 2
MaxQueue == 2
MaxInFlight == 1

(* ---------- program constants ---------- *)
QueryLimit == 10

NULL == "null"
NoObject == [null |-> TRUE]

Users == {"u1", "u2"}

Configs == {"undefined", "{}", "null", "malformed", "valid"}

Tokens == {NULL, "tok"}

ConfigNotFound == "Firebase configuration not found. Please ensure __firebase_config is set."
InitFailed == "Failed to initialize Firebase: <message>"
AuthFailed == "Authentication failed: <message>"
FetchFailed == "Failed to fetch sensor data: <message>"

(* ---------- documents the backend can deliver ---------- *)
Ts(s, n) == [seconds |-> s, nanoseconds |-> n]

DocPool ==
  { [id |-> "r1", data |-> [temperature |-> 22, humidity |-> 40, timestamp |-> Ts(3, 500000000)]],
    [id |-> "r2", data |-> [temperature |-> 25, humidity |-> 38, timestamp |-> Ts(2, 999999)]],
    [id |-> "r3", data |-> [temperature |-> 22, humidity |-> 40, timestamp |-> NoObject]] }

(* Timestamp.toDate(): milliseconds since the epoch, sub-millisecond part dropped *)
toDate(ts) == [ms |-> ts.seconds * 1000 + (ts.nanoseconds \div 1000000)]

(* the object pushed for one document of the snapshot *)
Materialize(doc) ==
  [id |-> doc.id,
   temperature |-> doc.data.temperature,
   humidity |-> doc.data.humidity,
   timestamp |-> IF doc.data.timestamp # NoObject THEN toDate(doc.data.timestamp) ELSE NoObject]

(* fault: documents pushed in reverse order *)
ReadingsReversed(snapshot) ==
  [i \in 1..Len(snapshot) |-> Materialize(snapshot[Len(snapshot) + 1 - i])]

(* snapshot.forEach(...) : readings.push(...) *)
Readings(snapshot) == [i \in 1..Len(snapshot) |-> Materialize(snapshot[i])]

(* fault: the query asks for one record too many *)
SensorQueryWide == [coll |-> "sensorReadings", orderBy |-> "timestamp", dir |-> "desc", lim |-> QueryLimit + 1]

(* the query built for the live subscription *)
SensorQuery == [coll |-> "sensorReadings", orderBy |-> "timestamp", dir |-> "desc", lim |-> QueryLimit]

(* d1 may precede d2 under orderBy('timestamp', 'desc'): null sorts last *)
OrderedDesc(d1, d2) ==
  LET t1 == d1.data.timestamp
      t2 == d2.data.timestamp
  IN  \/ t2 = NoObject
      \/ /\ t1 # NoObject
         /\ \/ t1.seconds > t2.seconds
            \/ t1.seconds = t2.seconds /\ t1.nanoseconds >= t2.nanoseconds

Min(a, b) == IF a < b THEN a ELSE b

(* result sets a live query q can deliver: distinct documents, ordered by q, at most q.lim *)
SnapshotsFor(q) ==
  { S \in UNION { [1..n -> DocPool] : n \in 0..Min(MaxSnapLen, q.lim) } :
      /\ \A i, j \in 1..Len(S) : i # j => S[i].id # S[j].id
      /\ \A i \in 1..(Len(S) - 1) : OrderedDesc(S[i], S[i + 1]) }

(* sensor records in the order they are written to the collection, oldest first *)
Rec(i, n) == [id |-> i, data |-> [temperature |-> 20, humidity |-> 40, timestamp |-> Ts(n, 0)]]

Inserted ==
  << Rec("d01", 1), Rec("d02", 2), Rec("d03", 3), Rec("d04", 4), Rec("d05", 5), Rec("d06", 6),
     Rec("d07", 7), Rec("d08", 8), Rec("d09", 9), Rec("d10", 10), Rec("d11", 11) >>

(* the collection after the first n records were written *)
CollectionAfter(n) == {Inserted[i] : i \in 1..n}

Newest(C) == CHOOSE d \in C : \A e \in C : OrderedDesc(d, e)

RECURSIVE SortDesc(_)
SortDesc(C) == IF C = {} THEN <<>> ELSE <<Newest(C)>> \o SortDesc(C \ {Newest(C)})

(* what the backend delivers for query q over collection C: ordered, cut at q.lim *)
QueryResult(C, q) == SubSeq(SortDesc(C), 1, Min(Cardinality(C), q.lim))

(* JSON.parse(__firebase_config), or {} when the global is undefined *)
ParseConfig(c) ==
  CASE c = "undefined" -> [threw |-> FALSE, value |-> "object", keys |-> 0]
    [] c = "{}"        -> [threw |-> FALSE, value |-> "object", keys |-> 0]
    [] c = "null"      -> [threw |-> FALSE, value |-> NULL, keys |-> 0]
    [] c = "malformed" -> [threw |-> TRUE, value |-> NULL, keys |-> 0]
    [] OTHER           -> [threw |-> FALSE, value |-> "object", keys |-> 3]

VARIABLES
  config,            \* __firebase_config as injected
  initialAuthToken,  \* __initial_auth_token, NULL when undefined
  phase,             \* "init" (rendered, effects not run), "mounted", "unmounted"
  db, auth, userId, latestReading, sensorReadings, error, isLoading,
  authListeners,     \* outstanding onAuthStateChanged registrations
  authUser,          \* current user of the auth service
  authQueue,         \* identity notifications not yet delivered to the listener
  signInsInFlight,   \* sign-in promises awaited by the listener callback
  subs,              \* live onSnapshot subscriptions
  cleanup,           \* subscriptions the data effect's returned cleanup cancels
  effectDeps,        \* [db, userId] of the last run of the data effect
  lastEvent,         \* the handler that ran last and its input
  hist               \* what has happened so far in the session

vars == <<config, initialAuthToken, phase, db, auth, userId, latestReading,
          sensorReadings, error, isLoading, authListeners, authUser, authQueue,
          signInsInFlight, subs, cleanup, effectDeps, lastEvent, hist>>

(* the aggregate the render function reads *)
ViewState ==
  [identity |-> userId, ReadingWindow |-> sensorReadings, latestReading |-> latestReading,
   error |-> error, isLoading |-> isLoading]

(* record of one handler run: its input and the ViewState it started from *)
Event(t, snap, user, calls) ==
  [type |-> t, snapshot |-> snap, user |-> user, signIns |-> calls, before |-> ViewState]

Init ==
  /\ config \in Configs
  /\ initialAuthToken \in Tokens
  /\ phase = "init"
  /\ db = NULL
  /\ auth = NULL
  /\ userId = NULL
  /\ latestReading = NoObject
  /\ sensorReadings = <<>>
  /\ error = NULL
  /\ isLoading = TRUE
  /\ authListeners = 0
  /\ authUser \in Users \cup {NULL}
  /\ authQueue = <<>>
  /\ signInsInFlight = 0
  /\ subs = {}
  /\ cleanup = {}
  /\ effectDeps = <<NULL, NULL>>
  /\ lastEvent = Event("none", <<>>, NULL, <<>>)
  /\ hist = {}

(* ---------- the state of the App component ---------- *)

(* fault: the emptiness test of the configuration is left out *)
ConfigMissingNullOnly(cfg) == cfg.value = NULL

(* !firebaseConfig || Object.keys(firebaseConfig).length === 0 *)
ConfigMissing(cfg) == cfg.value = NULL \/ cfg.keys = 0

(* fault: the supplied token is ignored *)
SignInCallsAnonOnly(token) == <<"anon">>

(* the sign-in calls one "signed out" notification makes *)
SignInCalls(token) == IF token # NULL THEN <<"token">> ELSE <<"anon">>

(* fault: a "signed out" notification clears userId *)
UserIdAfterCleared(user) == user

(* userId after the listener callback has run with `user` *)
UserIdAfter(user) == IF user # NULL THEN user ELSE userId

(* fault: the data effect only waits for the connection handle *)
CanActivateDbOnly == db # NULL

(* if (db && userId) *)
CanActivate == db # NULL /\ userId # NULL

(* fault: an empty snapshot resets latestReading *)
NextLatestReset(readings) == IF Len(readings) > 0 THEN readings[1] ELSE NoObject

(* fault: the last reading of the snapshot is taken as the latest *)
NextLatestLast(readings) == IF Len(readings) > 0 THEN readings[Len(readings)] ELSE latestReading

(* fault: the latest reading is read from the window of the previous render *)
NextLatestStaleClosure(readings) ==
  IF Len(sensorReadings) > 0 THEN sensorReadings[1] ELSE latestReading

(* if (readings.length > 0) setLatestReading(readings[0]) *)
NextLatest(readings) == IF Len(readings) > 0 THEN readings[1] ELSE latestReading

(* fault: the error panel is only shown while no reading was ever received *)
RenderModeBanner ==
  IF isLoading THEN "loading"
  ELSE IF error # NULL /\ latestReading = NoObject THEN "error"
  ELSE "dashboard"

(* which of the three return statements of the render function is taken *)
RenderMode ==
  IF isLoading THEN "loading"
  ELSE IF error # NULL THEN "error"
  ELSE "dashboard"

EffectPending == effectDeps # <<db, userId>>

Mounted == phase = "mounted"

(* the subscription onSnapshot(q, ...) returns, opened by the effect run for [db, userId] *)
NewSub == [db |-> db, uid |-> userId, query |-> SensorQuery]

(* fault: the failure paths of the initialization leave the loading flag set *)
MountKeepsLoading ==
  /\ phase = "init"
  /\ phase' = "mounted"
  /\ LET cfg == ParseConfig(config) IN
       IF cfg.threw
       THEN /\ error' = InitFailed
            /\ UNCHANGED <<isLoading, db, auth, authListeners, authQueue>>
       ELSE IF ConfigMissing(cfg)
       THEN /\ error' = ConfigNotFound
            /\ UNCHANGED <<isLoading, db, auth, authListeners, authQueue>>
       ELSE /\ db' = "firestoreDb"
            /\ auth' = "firebaseAuth"
            /\ authListeners' = authListeners + 1
            /\ authQueue' = <<authUser>>
            /\ UNCHANGED <<error, isLoading>>
  /\ effectDeps' = <<NULL, NULL>>
  /\ lastEvent' = Event("mount", <<>>, NULL, <<>>)
  /\ UNCHANGED <<config, initialAuthToken, userId, latestReading, sensorReadings,
                 authUser, signInsInFlight, subs, cleanup, hist>>

(* ---------- initialization effect, run once on mount ---------- *)
(* The mount commit also runs the data effect for the first time, with db and
   userId still null: it does nothing and returns no cleanup. *)
Mount ==
  /\ phase = "init"
  /\ phase' = "mounted"
  /\ LET cfg == ParseConfig(config) IN
       IF cfg.threw
       THEN /\ error' = InitFailed
            /\ isLoading' = FALSE
            /\ UNCHANGED <<db, auth, authListeners, authQueue>>
       ELSE IF ConfigMissing(cfg)
       THEN /\ error' = ConfigNotFound
            /\ isLoading' = FALSE
            /\ UNCHANGED <<db, auth, authListeners, authQueue>>
       ELSE /\ db' = "firestoreDb"
            /\ auth' = "firebaseAuth"
            /\ authListeners' = authListeners + 1
            /\ authQueue' = <<authUser>>
            /\ UNCHANGED <<error, isLoading>>
  /\ effectDeps' = <<NULL, NULL>>
  /\ lastEvent' = Event("mount", <<>>, NULL, <<>>)
  /\ UNCHANGED <<config, initialAuthToken, userId, latestReading, sensorReadings,
                 authUser, signInsInFlight, subs, cleanup, hist>>

(* fault: a reported user does not end the loading state *)
AuthStateChangedKeepsLoading ==
  /\ phase = "mounted"
  /\ authListeners > 0
  /\ authQueue # <<>>
  /\ LET user == Head(authQueue) IN
       /\ authQueue' = Tail(authQueue)
       /\ userId' = UserIdAfter(user)
       /\ IF user # NULL
          THEN /\ lastEvent' = Event("authPresent", <<>>, user, <<>>)
               /\ hist' = hist \cup {"identity"}
               /\ UNCHANGED signInsInFlight
          ELSE /\ signInsInFlight' = signInsInFlight + Len(SignInCalls(initialAuthToken))
               /\ lastEvent' = Event("authAbsent", <<>>, NULL, SignInCalls(initialAuthToken))
               /\ UNCHANGED hist
  /\ UNCHANGED <<config, initialAuthToken, phase, db, auth, latestReading, sensorReadings,
                 error, isLoading, authListeners, authUser, subs, cleanup, effectDeps>>

(* ---------- onAuthStateChanged callback, up to its first await ---------- *)
AuthStateChanged ==
  /\ Mounted
  /\ authListeners > 0
  /\ authQueue # <<>>
  /\ LET user == Head(authQueue) IN
       /\ authQueue' = Tail(authQueue)
       /\ userId' = UserIdAfter(user)
       /\ IF user # NULL
          THEN /\ isLoading' = FALSE
               /\ lastEvent' = Event("authPresent", <<>>, user, <<>>)
               /\ hist' = hist \cup {"identity"}
               /\ UNCHANGED signInsInFlight
          ELSE /\ signInsInFlight' = signInsInFlight + Len(SignInCalls(initialAuthToken))
               /\ lastEvent' = Event("authAbsent", <<>>, NULL, SignInCalls(initialAuthToken))
               /\ UNCHANGED <<isLoading, hist>>
  /\ UNCHANGED <<config, initialAuthToken, phase, db, auth, latestReading, sensorReadings,
                 error, authListeners, authUser, subs, cleanup, effectDeps>>

(* an awaited sign-in resolves: the callback only logs; the auth service has a
   user and notifies the registered listener *)
SignInSucceeds(u) ==
  /\ signInsInFlight > 0
  /\ Len(authQueue) < MaxQueue
  /\ signInsInFlight' = signInsInFlight - 1
  /\ authUser' = u
  /\ authQueue' = IF authListeners > 0 /\ u # authUser THEN Append(authQueue, u) ELSE authQueue
  /\ lastEvent' = Event("signInOk", <<>>, u, <<>>)
  /\ hist' = hist \cup {"signInOk"}
  /\ UNCHANGED <<config, initialAuthToken, phase, db, auth, userId, latestReading,
                 sensorReadings, error, isLoading, authListeners, subs, cleanup, effectDeps>>

(* fault: the catch block leaves the loading flag set *)
SignInFailsKeepsLoading ==
  /\ signInsInFlight > 0
  /\ signInsInFlight' = signInsInFlight - 1
  /\ IF phase = "mounted"
     THEN error' = AuthFailed
     ELSE UNCHANGED error
  /\ lastEvent' = Event("signInFailed", <<>>, NULL, <<>>)
  /\ hist' = hist \cup (IF phase = "mounted" THEN {"signInFailed"} ELSE {})
  /\ UNCHANGED <<config, initialAuthToken, phase, db, auth, userId, latestReading,
                 sensorReadings, isLoading, authListeners, authUser, authQueue, subs,
                 cleanup, effectDeps>>

(* fault: the catch block writes the state of a component that is gone *)
SignInFailsAfterUnmount ==
  /\ signInsInFlight > 0
  /\ signInsInFlight' = signInsInFlight - 1
  /\ error' = AuthFailed
  /\ isLoading' = FALSE
  /\ lastEvent' = Event("signInFailed", <<>>, NULL, <<>>)
  /\ hist' = hist \cup (IF phase = "mounted" THEN {"signInFailed"} ELSE {})
  /\ UNCHANGED <<config, initialAuthToken, phase, db, auth, userId, latestReading,
                 sensorReadings, authListeners, authUser, authQueue, subs, cleanup,
                 effectDeps>>

(* fault: the catch block starts the sign-in again *)
SignInFailsRetries ==
  /\ signInsInFlight > 0
  /\ UNCHANGED signInsInFlight
  /\ IF phase = "mounted"
     THEN /\ error' = AuthFailed
          /\ isLoading' = FALSE
     ELSE UNCHANGED <<error, isLoading>>
  /\ lastEvent' = Event("signInFailed", <<>>, NULL, <<>>)
  /\ hist' = hist \cup (IF phase = "mounted" THEN {"signInFailed"} ELSE {})
  /\ UNCHANGED <<config, initialAuthToken, phase, db, auth, userId, latestReading,
                 sensorReadings, authListeners, authUser, authQueue, subs, cleanup,
                 effectDeps>>

(* an awaited sign-in rejects: the catch block of the callback *)
SignInFails ==
  /\ signInsInFlight > 0
  /\ signInsInFlight' = signInsInFlight - 1
  /\ IF Mounted
     THEN /\ error' = AuthFailed
          /\ isLoading' = FALSE
     ELSE UNCHANGED <<error, isLoading>>
  /\ lastEvent' = Event("signInFailed", <<>>, NULL, <<>>)
  /\ hist' = hist \cup (IF Mounted THEN {"signInFailed"} ELSE {})
  /\ UNCHANGED <<config, initialAuthToken, phase, db, auth, userId, latestReading,
                 sensorReadings, authListeners, authUser, authQueue, subs, cleanup,
                 effectDeps>>

NullsQueued == Cardinality({i \in 1..Len(authQueue) : authQueue[i] = NULL})

(* the auth service loses its user (sign-out elsewhere, revoked session) *)
SignedOut ==
  /\ authUser # NULL
  /\ Len(authQueue) < MaxQueue
  /\ signInsInFlight + NullsQueued < MaxInFlight
  /\ authUser' = NULL
  /\ authQueue' = IF authListeners > 0 THEN Append(authQueue, NULL) ELSE authQueue
  /\ lastEvent' = Event("signedOut", <<>>, NULL, <<>>)
  /\ UNCHANGED <<config, initialAuthToken, phase, db, auth, userId, latestReading,
                 sensorReadings, error, isLoading, authListeners, signInsInFlight,
                 subs, cleanup, effectDeps, hist>>

(* the auth service obtains a user without a sign-in call of this component
   (session restored or signed in from another tab of the same origin) *)
SignedIn(u) ==
  /\ authUser = NULL
  /\ Len(authQueue) < MaxQueue
  /\ authUser' = u
  /\ authQueue' = IF authListeners > 0 THEN Append(authQueue, u) ELSE authQueue
  /\ lastEvent' = Event("signedIn", <<>>, u, <<>>)
  /\ UNCHANGED <<config, initialAuthToken, phase, db, auth, userId, latestReading,
                 sensorReadings, error, isLoading, authListeners, signInsInFlight,
                 subs, cleanup, effectDeps, hist>>

(* a live subscription is cancelled by the effect's cleanup *)
Cancelled == IF subs \cap cleanup # {} THEN {"cancelled"} ELSE {}

(* fault: a re-activation shows the loading indicator again *)
DataEffectShowsLoading ==
  /\ phase = "mounted"
  /\ effectDeps # <<db, userId>>
  /\ effectDeps' = <<db, userId>>
  /\ IF db # NULL /\ userId # NULL
     THEN /\ error' = NULL
          /\ isLoading' = TRUE
          /\ subs' = (subs \ cleanup) \cup {NewSub}
          /\ cleanup' = {NewSub}
          /\ hist' = hist \cup {"opened"} \cup Cancelled
     ELSE /\ subs' = subs \ cleanup
          /\ cleanup' = {}
          /\ hist' = hist \cup Cancelled
          /\ UNCHANGED <<error, isLoading>>
  /\ lastEvent' = Event("dataEffect", <<>>, NULL, <<>>)
  /\ UNCHANGED <<config, initialAuthToken, phase, db, auth, userId, latestReading,
                 sensorReadings, authListeners, authUser, authQueue, signInsInFlight>>

(* fault: the effect re-runs without the previous run's cleanup *)
DataEffectNoCleanup ==
  /\ phase = "mounted"
  /\ effectDeps # <<db, userId>>
  /\ effectDeps' = <<db, userId>>
  /\ IF db # NULL /\ userId # NULL
     THEN /\ error' = NULL
          /\ subs' = subs \cup {[db |-> db, uid |-> userId, query |-> SensorQuery]}
          /\ cleanup' = {[db |-> db, uid |-> userId, query |-> SensorQuery]}
          /\ hist' = hist \cup {"opened"}
     ELSE /\ cleanup' = {}
          /\ UNCHANGED <<subs, error, hist>>
  /\ lastEvent' = Event("dataEffect", <<>>, NULL, <<>>)
  /\ UNCHANGED <<config, initialAuthToken, phase, db, auth, userId, latestReading,
                 sensorReadings, isLoading, authListeners, authUser, authQueue,
                 signInsInFlight>>

(* ---------- data effect, re-run when db or userId changed ---------- *)
DataEffect ==
  /\ Mounted
  /\ EffectPending
  /\ effectDeps' = <<db, userId>>
  /\ IF CanActivate
     THEN /\ error' = NULL
          /\ subs' = (subs \ cleanup) \cup {NewSub}
          /\ cleanup' = {NewSub}
          /\ hist' = hist \cup {"opened"} \cup Cancelled
     ELSE /\ subs' = subs \ cleanup
          /\ cleanup' = {}
          /\ hist' = hist \cup Cancelled
          /\ UNCHANGED error
  /\ lastEvent' = Event("dataEffect", <<>>, NULL, <<>>)
  /\ UNCHANGED <<config, initialAuthToken, phase, db, auth, userId, latestReading,
                 sensorReadings, isLoading, authListeners, authUser, authQueue,
                 signInsInFlight>>

(* fault: a delivered snapshot clears the error *)
SnapshotClearsError(s, S) ==
  /\ phase = "mounted"
  /\ s \in subs
  /\ sensorReadings' = Readings(S)
  /\ latestReading' = NextLatest(Readings(S))
  /\ isLoading' = FALSE
  /\ error' = NULL
  /\ lastEvent' = Event("snapshot", S, NULL, <<>>)
  /\ hist' = hist \cup {"snapshot"} \cup (IF Len(S) > 0 THEN {"nonempty"} ELSE {})
  /\ UNCHANGED <<config, initialAuthToken, phase, db, auth, userId, authListeners,
                 authUser, authQueue, signInsInFlight, subs, cleanup, effectDeps>>

(* ---------- onSnapshot success callback ---------- *)
Snapshot(s, S) ==
  /\ Mounted
  /\ s \in subs
  /\ sensorReadings' = Readings(S)
  /\ latestReading' = NextLatest(Readings(S))
  /\ isLoading' = FALSE
  /\ lastEvent' = Event("snapshot", S, NULL, <<>>)
  /\ hist' = hist \cup {"snapshot"} \cup (IF Len(S) > 0 THEN {"nonempty"} ELSE {})
  /\ UNCHANGED <<config, initialAuthToken, phase, db, auth, userId, error, authListeners,
                 authUser, authQueue, signInsInFlight, subs, cleanup, effectDeps>>

(* fault: the error callback also drops the displayed readings *)
SubscriptionErrorClears(s) ==
  /\ phase = "mounted"
  /\ s \in subs
  /\ error' = FetchFailed
  /\ isLoading' = FALSE
  /\ sensorReadings' = <<>>
  /\ latestReading' = NoObject
  /\ subs' = subs \ {s}
  /\ lastEvent' = Event("subscriptionError", <<>>, NULL, <<>>)
  /\ UNCHANGED <<config, initialAuthToken, phase, db, auth, userId, authListeners, authUser,
                 authQueue, signInsInFlight, cleanup, effectDeps, hist>>

(* ---------- onSnapshot error callback; the backend ends the listener ---------- *)
SubscriptionError(s) ==
  /\ Mounted
  /\ s \in subs
  /\ error' = FetchFailed
  /\ isLoading' = FALSE
  /\ subs' = subs \ {s}
  /\ lastEvent' = Event("subscriptionError", <<>>, NULL, <<>>)
  /\ UNCHANGED <<config, initialAuthToken, phase, db, auth, userId, latestReading,
                 sensorReadings, authListeners, authUser, authQueue, signInsInFlight,
                 cleanup, effectDeps, hist>>

(* fault: the initialization effect returns no cleanup *)
UnmountKeepsListener ==
  /\ phase = "mounted"
  /\ effectDeps = <<db, userId>>
  /\ phase' = "unmounted"
  /\ subs' = subs \ cleanup
  /\ cleanup' = {}
  /\ lastEvent' = Event("unmount", <<>>, NULL, <<>>)
  /\ hist' = hist \cup Cancelled
  /\ UNCHANGED <<config, initialAuthToken, db, auth, userId, latestReading, sensorReadings,
                 error, isLoading, authListeners, authUser, authQueue, signInsInFlight,
                 effectDeps>>

(* ---------- unmount: the cleanups returned by both effects ---------- *)
Unmount ==
  /\ Mounted
  /\ ~EffectPending
  /\ phase' = "unmounted"
  /\ authListeners' = IF authListeners > 0 THEN authListeners - 1 ELSE 0
  /\ authQueue' = <<>>
  /\ subs' = subs \ cleanup
  /\ cleanup' = {}
  /\ lastEvent' = Event("unmount", <<>>, NULL, <<>>)
  /\ hist' = hist \cup Cancelled
  /\ UNCHANGED <<config, initialAuthToken, db, auth, userId, latestReading, sensorReadings,
                 error, isLoading, authUser, signInsInFlight, effectDeps>>

(* ---------- the component is mounted again with its state preserved ---------- *)
(* Both effects run again in one commit (React 18 strict / reusable-state
   remount): the initialization effect as on the first mount, the data effect
   with the db and userId the component already holds. *)
Remount ==
  /\ phase = "unmounted"
  /\ "remounted" \notin hist
  /\ phase' = "mounted"
  /\ LET cfg == ParseConfig(config) IN
       IF cfg.threw
       THEN /\ error' = InitFailed
            /\ isLoading' = FALSE
            /\ UNCHANGED <<db, auth, authListeners, authQueue, subs, cleanup>>
            /\ hist' = hist \cup {"remounted"}
       ELSE IF ConfigMissing(cfg)
       THEN /\ error' = ConfigNotFound
            /\ isLoading' = FALSE
            /\ UNCHANGED <<db, auth, authListeners, authQueue, subs, cleanup>>
            /\ hist' = hist \cup {"remounted"}
       ELSE /\ db' = "firestoreDb"
            /\ auth' = "firebaseAuth"
            /\ authListeners' = authListeners + 1
            /\ authQueue' = <<authUser>>
            /\ IF CanActivate
               THEN /\ error' = NULL
                    /\ subs' = subs \cup {NewSub}
                    /\ cleanup' = {NewSub}
                    /\ hist' = hist \cup {"remounted", "opened"}
               ELSE /\ UNCHANGED <<error, subs, cleanup>>
                    /\ hist' = hist \cup {"remounted"}
            /\ UNCHANGED isLoading
  /\ effectDeps' = <<db, userId>>
  /\ lastEvent' = Event("remount", <<>>, NULL, <<>>)
  /\ UNCHANGED <<config, initialAuthToken, userId, latestReading, sensorReadings,
                 authUser, signInsInFlight>>

Next ==
  \/ Mount
  \/ AuthStateChanged
  \/ \E u \in Users : SignInSucceeds(u)
  \/ SignInFails
  \/ SignedOut
  \/ \E u \in Users : SignedIn(u)
  \/ DataEffect
  \/ \E s \in subs : \E S \in SnapshotsFor(s.query) : Snapshot(s, S)
  \/ \E s \in subs : SubscriptionError(s)
  \/ Unmount

Spec == Init /\ [][Next]_vars

NextRemount ==
  \/ Next
  \/ Remount

(* the snapshots the live query delivers for the empty collection and while the
   records around the query limit are written *)
BacklogResults ==
  {QueryResult(CollectionAfter(n), SensorQuery) : n \in {0} \cup ((QueryLimit - 1)..Len(Inserted))}

(* the initialization effect runs after the first render, the auth service
   delivers queued notifications and answers every sign-in *)
LoadSpec ==
  /\ Spec
  /\ WF_vars(Mount)
  /\ WF_vars(AuthStateChanged)
  /\ WF_vars(SignInFails \/ \E u \in Users : SignInSucceeds(u))

NextBacklog ==
  \/ Mount
  \/ AuthStateChanged
  \/ \E u \in Users : SignInSucceeds(u)
  \/ SignInFails
  \/ SignedOut
  \/ \E u \in Users : SignedIn(u)
  \/ DataEffect
  \/ \E s \in subs : \E S \in BacklogResults : s.query = SensorQuery /\ Snapshot(s, S)
  \/ \E s \in subs : SubscriptionError(s)
  \/ Unmount

(* sessions in which the collection grows past the query limit *)
BacklogSpec == Init /\ [][NextBacklog]_vars

(* sessions in which the mounted component is torn down and mounted again *)
RemountSpec == Init /\ [][NextRemount]_vars

(* React runs a pending effect; the auth service delivers queued notifications *)
LiveSpec == Spec /\ WF_vars(DataEffect) /\ WF_vars(AuthStateChanged)

TypeOK ==
  /\ phase \in {"init", "mounted", "unmounted"}
  /\ userId \in Users \cup {NULL}
  /\ isLoading \in BOOLEAN
  /\ error \in {NULL, ConfigNotFound, InitFailed, AuthFailed, FetchFailed}
  /\ Len(sensorReadings) <= MaxSnapLen
  /\ signInsInFlight \in 0..(2 * MaxInFlight)
  /\ Len(authQueue) <= MaxQueue

(* ======================= properties ======================= *)

SnapshotRan == lastEvent.type = "snapshot"

(* C1: after the snapshot handler has run on a non-empty snapshot S, the
   ReadingWindow has one reading per document of S, in the order of S, each
   with the document's id and fields (timestamp converted to a date or null),
   and latestReading is the reading of S[1]. *)
C1_WindowIsSnapshot ==
  (SnapshotRan /\ Len(lastEvent.snapshot) > 0) =>
    LET S == lastEvent.snapshot IN
      /\ Len(sensorReadings) = Len(S)
      /\ \A i \in 1..Len(S) :
           /\ sensorReadings[i].id = S[i].id
           /\ sensorReadings[i].temperature = S[i].data.temperature
           /\ sensorReadings[i].humidity = S[i].data.humidity
           /\ sensorReadings[i].timestamp =
                (IF S[i].data.timestamp = NoObject THEN NoObject ELSE toDate(S[i].data.timestamp))
      /\ latestReading = sensorReadings[1]
      /\ latestReading.id = S[1].id

C1_Witness ==
  /\ SnapshotRan
  /\ Len(lastEvent.snapshot) >= 2
  /\ lastEvent.before.ReadingWindow # <<>>
  /\ lastEvent.before.ReadingWindow[1].id # lastEvent.snapshot[1].id

(* C2: an empty snapshot processed after a non-empty one leaves latestReading
   at its previous (non-null) value and empties the ReadingWindow. *)
C2_StaleLatestRetained ==
  (SnapshotRan /\ lastEvent.snapshot = <<>> /\ "nonempty" \in hist) =>
    /\ latestReading = lastEvent.before.latestReading
    /\ latestReading # NoObject
    /\ sensorReadings = <<>>

C2_Witness ==
  /\ SnapshotRan
  /\ lastEvent.snapshot = <<>>
  /\ lastEvent.before.ReadingWindow # <<>>
  /\ latestReading = lastEvent.before.ReadingWindow[1]

(* C3: in every reachable state, a non-empty ReadingWindow has latestReading
   as its first element. *)
C3_LatestIsHead == sensorReadings # <<>> => latestReading = sensorReadings[1]

C3_Witness ==
  /\ sensorReadings # <<>>
  /\ lastEvent.type = "dataEffect"
  /\ lastEvent.before.error = FetchFailed
  /\ subs # {}

(* C4: the subscription error callback sets error, clears isLoading and leaves
   ReadingWindow and latestReading as they were; before any snapshot they are
   still empty and null. *)
C4_ErrorKeepsWindow ==
  lastEvent.type = "subscriptionError" =>
    /\ error # NULL
    /\ isLoading = FALSE
    /\ sensorReadings = lastEvent.before.ReadingWindow
    /\ latestReading = lastEvent.before.latestReading
    /\ ("snapshot" \notin hist => sensorReadings = <<>> /\ latestReading = NoObject)

C4_Witness ==
  /\ lastEvent.type = "subscriptionError"
  /\ "nonempty" \in hist
  /\ sensorReadings # <<>>
  /\ lastEvent.before.error = NULL

C4_WitnessFirst ==
  /\ lastEvent.type = "subscriptionError"
  /\ "snapshot" \notin hist

(* C5 as stated: the error panel is the render mode only when no snapshot was
   ever processed, and with error set after a successful snapshot the render
   mode is the dashboard. *)
C5_Original ==
  /\ RenderMode = "error" => "snapshot" \notin hist
  /\ (error # NULL /\ "snapshot" \in hist) => RenderMode = "dashboard"

(* C5 (amended): whenever error is set after a successful snapshot the render
   mode is the error panel, not the dashboard; the last good ReadingWindow
   stays in the state behind it. *)
C5_ErrorPanelAfterData ==
  (error # NULL /\ "snapshot" \in hist) => RenderMode = "error"

C5_Witness ==
  /\ error = FetchFailed
  /\ "nonempty" \in hist
  /\ sensorReadings # <<>>
  /\ RenderMode = "error"

(* C6: a step that opens a subscription starts in a state where the connection
   handle and the identity are present and the listener has already reported a
   present identity. *)
C6_ActivationPrecondition ==
  [][(subs' \ subs # {}) => (db # NULL /\ userId # NULL /\ "identity" \in hist)]_vars

C6_Witness ==
  /\ lastEvent.type = "dataEffect"
  /\ subs # {}
  /\ "identity" \in hist
  /\ lastEvent.before.isLoading = FALSE

(* C7: at most one subscription is live at any time, every live subscription
   is the sensorReadings query ordered by timestamp descending with limit 10,
   an activation replaces the live subscriptions by exactly one new one, and
   after teardown none is live. *)
C7_OneSubscription ==
  /\ [](/\ Cardinality(subs) <= 1
        /\ \A s \in subs : s.query = [coll |-> "sensorReadings", orderBy |-> "timestamp",
                                      dir |-> "desc", lim |-> 10]
        /\ (phase = "unmounted" => subs = {}))
  /\ [][(lastEvent'.type = "dataEffect" /\ db # NULL /\ userId # NULL) =>
          (Cardinality(subs') = 1 /\ subs' \cap subs = {})]_vars

C7_Witness ==
  /\ lastEvent.type = "dataEffect"
  /\ Cardinality(subs) = 1
  /\ "cancelled" \in hist

(* C8 as stated: once the listener has reported the identity absent and the
   component has settled, no subscription is live. *)
C8_Original ==
  (Mounted /\ authUser = NULL /\ authQueue = <<>> /\ ~EffectPending) => subs = {}

(* C8 (amended): a "signed out" notification leaves userId and the live
   subscription as they are; a subscription stops being live only in a re-run
   of the data effect, at teardown, or when the backend ends it with an error. *)
C8_SignOutKeepsSubscription ==
  /\ [][lastEvent'.type = "authAbsent" =>
          (userId' = userId /\ subs' = subs /\ cleanup' = cleanup /\ effectDeps' = effectDeps)]_vars
  /\ [][(subs \ subs' # {}) =>
          lastEvent'.type \in {"dataEffect", "unmount", "subscriptionError"}]_vars

C8_Witness ==
  /\ lastEvent.type = "authAbsent"
  /\ subs # {}
  /\ userId # NULL
  /\ authUser = NULL

(* C9: with a missing or empty configuration, from bootstrap on the state is
   isLoading = false, error = the configuration message, ReadingWindow empty,
   and it stays so: no listener, no sign-in, no subscription, no handle. *)
C9_MissingConfigTerminal ==
  (config \in {"undefined", "{}"} /\ phase # "init") =>
    /\ ViewState = [identity |-> NULL, ReadingWindow |-> <<>>, latestReading |-> NoObject,
                    error |-> ConfigNotFound, isLoading |-> FALSE]
    /\ authListeners = 0
    /\ authQueue = <<>>
    /\ signInsInFlight = 0
    /\ subs = {}
    /\ db = NULL
    /\ hist = {}

C9_Witness ==
  /\ config = "{}"
  /\ lastEvent.type = "signedOut"
  /\ Mounted
  /\ error = ConfigNotFound

(* C10: a "signed out" notification makes exactly one sign-in call, with the
   token when one was supplied and anonymously otherwise; a present identity
   reported by the listener is stored, and after it a subscription has
   eventually been opened. *)
C10_SignInThenSubscribe ==
  /\ [][lastEvent'.type = "authAbsent" =>
          /\ lastEvent'.signIns = (IF initialAuthToken = NULL THEN <<"anon">> ELSE <<"token">>)
          /\ signInsInFlight' = signInsInFlight + 1]_vars
  /\ [](lastEvent.type = "authPresent" => userId = lastEvent.user /\ userId # NULL)
  /\ (lastEvent.type = "authPresent") ~> ("opened" \in hist)

C10_Witness ==
  /\ initialAuthToken = NULL
  /\ "signInOk" \in hist
  /\ lastEvent.type = "dataEffect"
  /\ subs # {}
  /\ "cancelled" \notin hist

(* C11 as stated: once a sign-in has failed, error is non-null in every later
   state of the session. *)
C11_Original == "signInFailed" \in hist => error # NULL

(* C11 (amended): a sign-in failure sets the authentication message and clears
   isLoading without starting another sign-in; the message is only cleared by
   a run of the data effect that finds db and userId present. *)
C11_AuthErrorUntilActivation ==
  /\ [][lastEvent'.type = "signInFailed" /\ Mounted =>
          /\ error' = AuthFailed
          /\ isLoading' = FALSE
          /\ signInsInFlight' = signInsInFlight - 1]_vars
  /\ [][(error = AuthFailed /\ error' = NULL) =>
          (lastEvent'.type = "dataEffect" /\ db # NULL /\ userId # NULL)]_vars

C11_Witness ==
  /\ "signInFailed" \in hist
  /\ lastEvent.type = "dataEffect"
  /\ lastEvent.before.error = AuthFailed
  /\ error = NULL
  /\ signInsInFlight = 0

(* C12: isLoading = true and error # null never hold together, so the three
   render modes are mutually exclusive descriptions of the ViewState. *)
C12_LoadingExcludesError == ~(isLoading /\ error # NULL)

C12_Witness ==
  /\ lastEvent.type = "signInFailed"
  /\ lastEvent.before.isLoading
  /\ lastEvent.before.error = NULL
  /\ error # NULL
  /\ ~isLoading

(* C13: with a valid configuration a mounted session has exactly one
   identity listener registered, never two (also after the bootstrap has run a
   second time), and none after teardown; without a valid configuration none
   is ever registered. *)
C13_OneListener ==
  /\ authListeners <= 1
  /\ (phase = "unmounted" => authListeners = 0)
  /\ (phase = "mounted" => authListeners = (IF config = "valid" THEN 1 ELSE 0))

C13_Witness ==
  /\ "remounted" \in hist
  /\ phase = "mounted"
  /\ authListeners = 1
  /\ lastEvent.type = "authPresent"

(* C14: handling the snapshot that was handled last once more leaves the
   ViewState as it is (the handler is idempotent), for empty and non-empty
   snapshots. *)
C14_SnapshotIdempotent ==
  [][(lastEvent.type = "snapshot" /\ lastEvent'.type = "snapshot"
        /\ lastEvent'.snapshot = lastEvent.snapshot) => ViewState' = ViewState]_vars

C14_Witness ==
  /\ SnapshotRan
  /\ lastEvent.snapshot # <<>>
  /\ lastEvent.before = ViewState
  /\ sensorReadings = Readings(lastEvent.snapshot)

(* C15: the ReadingWindow never holds more than 10 readings; once 11 records
   are in the collection the window holds the 10 newest of them, newest
   first, and not the oldest one. *)
C15_WindowAtMostTen ==
  /\ Len(sensorReadings) <= 10
  /\ (sensorReadings # <<>> /\ sensorReadings[1].id = "d11") =>
       /\ Len(sensorReadings) = 10
       /\ \A i \in 1..10 : sensorReadings[i].id = Inserted[12 - i].id
       /\ \A i \in 1..10 : sensorReadings[i].id # "d01"

C15_Witness ==
  /\ SnapshotRan
  /\ Len(sensorReadings) = 10
  /\ sensorReadings[1].id = "d11"
  /\ sensorReadings[10].id = "d02"
  /\ latestReading.id = "d11"

(* C16: the error set by the subscription error callback is cleared only by a
   run of the data effect that opens a subscription (an activation); a
   snapshot callback never changes error. *)
C16_ErrorUntilReactivation ==
  /\ [][(error = FetchFailed /\ error' = NULL) =>
          (lastEvent'.type = "dataEffect" /\ effectDeps # <<db, userId>> /\ subs' # {})]_vars
  /\ [][lastEvent'.type = "snapshot" => error' = error]_vars

C16_Witness ==
  /\ error = FetchFailed
  /\ lastEvent.type = "authPresent"
  /\ lastEvent.before.error = FetchFailed
  /\ ~EffectPending
  /\ subs = {}

C18_LoadingMonotone ==
  /\ [](phase = "init" => isLoading)
  /\ [][isLoading = FALSE => isLoading' = FALSE]_vars

C18_Witness ==
  /\ ~isLoading
  /\ lastEvent.type = "dataEffect"
  /\ "cancelled" \in hist
  /\ subs # {}

(* C19: as soon as the listener has reported a present identity, and before
   any snapshot was received, isLoading is false with the ReadingWindow empty
   and latestReading null, and with no error the dashboard is rendered. *)
C19_LoadedBeforeData ==
  ("identity" \in hist /\ "snapshot" \notin hist) =>
    /\ isLoading = FALSE
    /\ sensorReadings = <<>>
    /\ latestReading = NoObject
    /\ (error = NULL => RenderMode = "dashboard")

C19_Witness ==
  /\ "snapshot" \notin hist
  /\ subs # {}
  /\ isLoading = FALSE
  /\ error = NULL
  /\ sensorReadings = <<>>
  /\ latestReading = NoObject
  /\ RenderMode = "dashboard"

(* C20: when the effects run, queued identity notifications are delivered and
   every sign-in is answered, isLoading eventually becomes false, unless the
   component is torn down first. *)
C20_LoadingEnds == <>(isLoading = FALSE \/ phase = "unmounted")

C20_Witness ==
  /\ lastEvent.type = "authPresent"
  /\ lastEvent.before.isLoading
  /\ "signInOk" \in hist
  /\ ~isLoading
  /\ phase = "mounted"

====
